---- MODULE Spec2Model ----
(***************************************************************************)
(* A model of the action-planning code of MudPy's cafecosmos example:      *)
(* Player.craft_item / _craft_item / _execute_function_call (crafting and  *)
(* submission), and Player.get_unlockable_transformations / unlock_all /   *)
(* auto_farm (the unlock loop).  The chain node and the indexer are the    *)
(* environment: they are modelled by what the code asks of them.           *)
(***************************************************************************)
EXTENDS Integers, Sequences, FiniteSets, TLC

(***************************** bounds **************************************)
\* largest quantity of one item in an initial inventory
MaxQty == 2
\* largest `quantity` argument of craft_item
MaxQuantity == 2
\* number of craft_item calls made in one behaviour
MaxCalls == 2
\* most rows of the LandItem table of the player's land
MaxItems == 2
\* horizon up to which the clocks advance in unit steps
MaxTime == 2
\* scans of auto_farm's loop made in one behaviour
MaxCycles == 1
\* largest reading of the local clock
MaxWall == 34
\* number of land ids of LandNFTs
MaxLand == 3
\* transactions the node mines in a run of the loop that has no end
MaxMined == 1

(***************************** program constants ***************************)
\* closest_unlock_time = None
NoTime == -1
\* the safety margin added to the wait
SafetyMargin == 1
\* the default interval of auto_farm
DefaultInterval == 30
\* the item id place_item uses for "unlock"
UnlockItem == 0
\* np.nan in a cell of the grid
NaN == -1
\* the side of the grid of get_land
GridSize == 10
\* land_id = None
NoLand == 0

(***************************** values **************************************)
\* no exception / no transaction
NoError == [kind |-> "none", detail |-> <<>>]
NoExc == [type |-> "none", data |-> <<>>]
NoTx == [call |-> [fn |-> "none", x |-> 0, y |-> 0, item |-> 0], nonce |-> -1, tag |-> <<0, 0>>]

\* item ids: 1 is raw, 2 and 3 are craftable in the catalogs below
Items == {1, 2, 3}

\* CraftingRecipe rows as the indexer returns them: output, inputs, quantities
Recipe(out, ins, qs) == [output |-> out, inputs |-> ins, quantities |-> qs]

Catalogs ==
    { << Recipe(3, <<1>>, <<2>>) >>,
      << Recipe(2, <<1>>, <<1>>), Recipe(3, <<2, 1>>, <<1, 1>>) >> }

\* 4-byte error selectors a ContractCustomError can carry, as the 8 hex
\* digits of keccak(signature)[:4].hex(): the one of the error the ABIs
\* declare, and one no ABI declares
KnownSelector == <<"a", "b", "c", "d", "0", "1", "2", "3">>
OtherSelector == <<"f", "f", "f", "f", "0", "0", "0", "0">>
Selectors == {KnownSelector, OtherSelector}

\* the error data of a ContractCustomError (e.args[0]): "0x", the selector and
\* the encoded arguments of the error, or no data at all
ErrorData ==
    {<<"0", "x">> \o sel \o args : sel \in Selectors, args \in {<<>>, <<"0", "5">>}}
        \cup {<<"0", "x">>}

\* the error items of the loaded ABIs: contract, name, selector bytes in hex
AbiErrors ==
    {[contract |-> "CraftingSystem", name |-> "InsufficientItems", selector |-> KnownSelector]}

\* World._extract_all_errors: selector -> (contract name, error name)
ExtractAllErrors ==
    [sel \in {a.selector : a \in AbiErrors} |->
        LET a == CHOOSE b \in AbiErrors : b.selector = sel
        IN  <<a.contract, a.name>>]

\* Python's s[a:b] for 0 <= a <= b
Slice(str, a, b) == SubSeq(str, a + 1, IF b < Len(str) THEN b ELSE Len(str))

Max(a, b) == IF a > b THEN a ELSE b

\* the cells of the land that hold rows below
Coordinates == {<<0, 0>>, <<1, 0>>}

\* LandItem rows: x, y, z, placementtime, itemid; an item placed on another
\* one (z = 1) is placed later
LandRow(cx, cz, t, it) == [x |-> cx, y |-> 0, z |-> cz, placementtime |-> t, itemid |-> it]

LandRows ==
    { LandRow(0, 0, 0, 1), LandRow(0, 1, 1, 1), LandRow(0, 1, 1, 2),
      LandRow(1, 0, 0, 2), LandRow(1, 0, 1, 1) }

\* a LandItem table: rows in the order of their keys (x, y, z), which are
\* distinct, and an item at z = 1 lies on an item at z = 0
IsLand(l) ==
    /\ \A a, b \in 1..Len(l) :
          a < b => \/ l[a].x < l[b].x
                   \/ l[a].x = l[b].x /\ l[a].z < l[b].z
    /\ \A a \in 1..Len(l) :
          l[a].z = 1 => \E b \in 1..Len(l) : l[b].x = l[a].x /\ l[b].z = 0

Lands ==
    {l \in UNION {[1..n -> LandRows] : n \in 0..MaxItems} : IsLand(l)}

\* Transformations rows with input = 0: base, unlocktime
TransformationTables ==
    { << [base |-> 1, unlocktime |-> 2] >>,
      << [base |-> 1, unlocktime |-> 1], [base |-> 2, unlocktime |-> 3],
         [base |-> 1, unlocktime |-> 4] >> }

VARIABLES
    \* ---- World / chain node / indexer
    block_explorer_url,  \* World.block_explorer_url: TRUE when not None
    errors,              \* World.errors: selector -> <<contract, error name>>
    catalog,             \* indexer.CraftingRecipe rows
    inventory,           \* on-chain inventory of the player's land
    tx_count,            \* w3.eth.get_transaction_count(player_address)
    pending,             \* transactions sent and not yet mined
    executed,            \* calls mined with success, in order
    \* ---- Player.craft_item
    cpc,                 \* position: idle, loop, wait, returned, raised
    item_id,             \* item being crafted
    quantity,            \* the quantity argument
    k,                   \* completed iterations of the loop
    plan,                \* craft operations emitted by this call, in order
    awaiting,            \* transaction whose receipt is awaited
    error,               \* exception raised to the caller
    caught,              \* exception _execute_function_call caught for it
    sends,               \* send_raw_transaction calls of the last _craft_item
    ncalls,              \* craft_item calls made so far
    inv0,                \* inventory when the call started
    \* ---- indexer tables and clocks read by the unlock loop
    land,                \* indexer.LandItem rows of the player's land
    transformations,     \* indexer.Transformations rows with input = 0
    chain_time,          \* timestamp of the latest block
    wall_time,           \* time.time()
    \* ---- Player.auto_farm / Player.unlock_all
    fpc,                 \* position: idle, scan, unlock_all, check, place, wait, sleep, crashed
    pass,                \* the pass being made: first (unlock_all) or retry
    coordinates,         \* auto_farm: unlock_data["coordinates"]
    next_unlock_time,    \* auto_farm: unlock_data["nextUnlock"]
    ua_coordinates,      \* unlock_all: coordinates
    idx,                 \* index of the coordinate the pass is at
    failed_items,        \* failed_items
    unlock_data,         \* coordinates of the recheck made before a submission
    wait_time,           \* the last wait_time
    cycle,               \* scans made so far
    printed,             \* the last line printed by unlock_all / auto_farm
    attempts,            \* place_item calls of the cycle, per coordinate and pass
    residual,            \* coordinates whose retry failed in the cycle
    \* ---- the caller of auto_farm
    cancel,              \* the caller wants the loop to stop
    \* ---- Player.__init__
    owner,               \* LandNFTs.ownerOf: land id -> address
    session,             \* the Player object the last construction made
    \* ---- read-only queries
    craftable,           \* the rows get_craftable returned last
    grid,                \* the grid get_land returned last
    \* ---- World._wrap_function
    dispatch             \* the last call of a wrapped function and its outcome

chainVars == <<block_explorer_url, errors, catalog, inventory, tx_count, pending, executed>>
craftVars == <<cpc, item_id, quantity, k, plan, awaiting, error, caught, sends, ncalls, inv0>>
envVars == <<land, transformations, chain_time, wall_time, cancel>>
farmVars == <<fpc, pass, coordinates, next_unlock_time, ua_coordinates, idx, failed_items,
              unlock_data, wait_time, cycle, printed, attempts, residual>>
clientVars == <<owner, session, craftable, grid, dispatch>>
vars == <<chainVars, craftVars, envVars, farmVars, clientVars>>

(***************************** recipes *************************************)
\* the item has a recipe (it is not a raw item)
HasRecipe(cat, item) == \E i \in 1..Len(cat) : cat[i].output = item

\* first recipe whose output is the item
RecipeOf(cat, item) ==
    cat[CHOOSE i \in 1..Len(cat) :
            /\ cat[i].output = item
            /\ \A j \in 1..(i-1) : cat[j].output # item]

\* units of `item` that recipe r consumes
Needed(r, item) ==
    LET at == {n \in 1..Len(r.inputs) : r.inputs[n] = item}
    IN  IF at = {} THEN 0 ELSE r.quantities[CHOOSE n \in at : TRUE]

\* craftRecipe on chain: the recipe exists and the land holds every input
CanCraft(inv, cat, item) ==
    /\ HasRecipe(cat, item)
    /\ \A z \in Items : inv[z] >= Needed(RecipeOf(cat, item), z)

\* the inventory after one craftRecipe(item): inputs consumed, one unit produced
Crafted(inv, cat, item) ==
    [z \in Items |->
        inv[z] - Needed(RecipeOf(cat, item), z) + (IF z = item THEN 1 ELSE 0)]

(***************************** executor ************************************)
\* the call object _craft_item builds: craftRecipe(land_id, item_id)
CraftCall(item) == [fn |-> "craftRecipe", x |-> 0, y |-> 0, item |-> item]

\* the transaction _execute_function_call builds for a call
Txn(call, nonce, tag) == [call |-> call, nonce |-> nonce, tag |-> tag]

\* outcomes of function_call.estimate_gas: ok, or the exception it raises
EstimateResults(call) ==
    LET accepts == IF call.fn = "craftRecipe"
                   THEN CanCraft(inventory, catalog, call.item)
                   ELSE TRUE
        reverts == IF call.fn = "craftRecipe"
                   THEN ~CanCraft(inventory, catalog, call.item)
                   ELSE TRUE
    IN  (IF accepts THEN {[type |-> "ok", data |-> <<>>]} ELSE {})
        \cup (IF reverts
              THEN {[type |-> "ContractCustomError", data |-> d] : d \in ErrorData}
              ELSE {})
        \cup {[type |-> "Exception", data |-> <<"estimate_gas">>]}

\* outcomes of send_raw_transaction for a transaction with this nonce
SendResults(nonce) ==
    IF \E p \in pending : p.nonce = nonce
    THEN {[type |-> "replaced", data |-> <<>>], [type |-> "Exception", data |-> <<"nonce">>]}
    ELSE {[type |-> "sent", data |-> <<>>], [type |-> "Exception", data |-> <<"send">>]}

\* `selector = error_data[2:10]`
SelectorOf(error_data) == Slice(error_data, 2, 10)

\* variant: the exception raised in the ContractCustomError handler is caught
\* by the `except Exception` below it and wrapped once more
DecodeRewrapped(e) ==
    IF e.type = "ContractCustomError"
    THEN IF SelectorOf(e.data) \in DOMAIN errors
         THEN [kind |-> "failed", detail |-> <<errors[SelectorOf(e.data)][2]>>]
         ELSE [kind |-> "failed", detail |-> e.data]
    ELSE [kind |-> "failed", detail |-> e.data]

\* the exception _execute_function_call raises for an exception e
Decode(e) ==
    IF e.type = "ContractCustomError"
    THEN IF SelectorOf(e.data) \in DOMAIN errors
         THEN [kind |-> "custom error", detail |-> <<errors[SelectorOf(e.data)][2]>>]
         ELSE [kind |-> "unknown custom error", detail |-> e.data]
    ELSE [kind |-> "failed", detail |-> e.data]

\* the node's pool after a transaction is sent
Sent(tx) == {p \in pending : p.nonce # tx.nonce} \cup {tx}

(***************************** craft_item **********************************)
\* variant: the iterations are run last first
NextOpReversed(done) == quantity - done

\* the operation of the plan the loop of craft_item runs after `done`
\* iterations: they are run one after the other, in order
NextOp(done) == done + 1

\* variant: a send that failed is made once more
SendCallsWithRetry(failed) == IF failed THEN 2 ELSE 1

\* send_raw_transaction calls of an _execute_function_call that got to its
\* send, whether the send failed or not
SendCalls(failed) == 1

\* variant: only the units the inventory does not hold yet are crafted
RequestedBeyondHeld(q, held) == IF q > held THEN q - held ELSE 0

\* `range(quantity)`: the number of crafts is the quantity asked for, whatever
\* the inventory holds of the item
Requested(q, held) == q

\* variant: the body of the loop is run once before the count is looked at
InRangeAtLeastOnce(i, q) == i < q \/ i = 0

\* `for _ in range(quantity)`: iteration i (from 0) is run
InRangeOffByOne(i, q) == i <= q

InRange(i, q) == i < q

\* the exception is swallowed and the loop goes on
RaiseSwallowed(e) ==
    /\ error' = Decode(e)
    /\ caught' = e
    /\ cpc' = "loop"
    /\ k' = k + 1
    /\ UNCHANGED <<pending, awaiting>>

\* the exception is raised, but the transaction goes out all the same
RaiseButSend(e) ==
    /\ error' = Decode(e)
    /\ caught' = e
    /\ cpc' = "raised"
    /\ pending' = Sent(Txn(CraftCall(item_id), tx_count, <<ncalls, k + 1>>))
    /\ UNCHANGED <<k, awaiting>>

\* an exception leaves _execute_function_call and craft_item: nothing is sent
Raise(e) ==
    /\ error' = Decode(e)
    /\ caught' = e
    /\ cpc' = "raised"
    /\ UNCHANGED <<pending, k, awaiting>>

\* variant: the call books the craft in the inventory it was given
InventoryAfterCallSimulated(inv, cat, item) ==
    IF CanCraft(inv, cat, item) THEN Crafted(inv, cat, item) ELSE inv

\* _craft_item only builds the craftRecipe call and hands it to the executor:
\* the player's inventory is written by nothing on the client side
InventoryAfterCall(inv, cat, item) == inv

craft_item(item, q) ==
    /\ cpc \in {"idle", "returned", "raised"}
    /\ ncalls < MaxCalls
    /\ ncalls' = ncalls + 1
    /\ item_id' = item
    /\ quantity' = q
    /\ k' = 0
    /\ plan' = <<>>
    /\ error' = NoError
    /\ caught' = NoExc
    /\ sends' = 0
    /\ awaiting' = NoTx
    /\ inv0' = inventory
    /\ cpc' = "loop"
    /\ UNCHANGED <<chainVars, envVars, clientVars, farmVars>>

\* range(quantity) is exhausted: craft_item returns
craft_return ==
    /\ cpc = "loop"
    /\ ~InRange(k, Requested(quantity, inv0[item_id]))
    /\ cpc' = "returned"
    /\ UNCHANGED <<chainVars, item_id, quantity, k, plan, awaiting, error, caught, sends, ncalls, inv0>>
    /\ UNCHANGED <<envVars, clientVars, farmVars>>

\* one iteration: _craft_item -> _execute_function_call up to the send
craft_step ==
    /\ cpc = "loop"
    /\ InRange(k, Requested(quantity, inv0[item_id]))
    /\ LET call == CraftCall(item_id)
           tx == Txn(call, tx_count, <<ncalls, NextOp(k)>>)
       IN /\ plan' = Append(plan, call.item)
          /\ \E est \in EstimateResults(call) :
            IF est.type # "ok"
            THEN Raise(est) /\ sends' = 0
            ELSE \E snd \in SendResults(tx.nonce) :
                   IF snd.type \notin {"sent", "replaced"}
                   THEN Raise(snd) /\ sends' = SendCalls(TRUE)
                   ELSE /\ pending' = Sent(tx)
                        /\ IF block_explorer_url
                           THEN /\ cpc' = "wait"
                                /\ awaiting' = tx
                                /\ sends' = SendCalls(FALSE)
                                /\ UNCHANGED <<k, error, caught>>
                           ELSE /\ cpc' = "loop"
                                /\ k' = k + 1
                                /\ sends' = SendCalls(FALSE)
                                /\ UNCHANGED <<awaiting, error, caught>>
    /\ inventory' = InventoryAfterCall(inventory, catalog, item_id)
    /\ UNCHANGED <<block_explorer_url, errors, catalog, tx_count, executed,
                   item_id, quantity, ncalls, inv0>>
    /\ UNCHANGED <<envVars, clientVars, farmVars>>

\* wait_for_transaction_receipt returns: the transaction is in a block
craft_receipt ==
    /\ cpc = "wait"
    /\ awaiting \notin pending
    /\ cpc' = "loop"
    /\ k' = k + 1
    /\ awaiting' = NoTx
    /\ UNCHANGED <<chainVars, item_id, quantity, plan, error, caught, sends, ncalls, inv0>>
    /\ UNCHANGED <<envVars, clientVars, farmVars>>

\* wait_for_transaction_receipt(timeout=120) gives up
craft_timeout ==
    /\ cpc = "wait"
    /\ awaiting \in pending
    /\ error' = Decode([type |-> "Exception", data |-> <<"timeout">>])
    /\ caught' = [type |-> "Exception", data |-> <<"timeout">>]
    /\ cpc' = "raised"
    /\ awaiting' = NoTx
    /\ UNCHANGED pending
    /\ UNCHANGED <<block_explorer_url, errors, catalog, inventory, tx_count, executed,
                   item_id, quantity, k, plan, sends, ncalls, inv0>>
    /\ UNCHANGED <<envVars, clientVars, farmVars>>

(***************************** chain ***************************************)
\* the rows of the land at a cell
RowsAt(l, x, y) == {n \in DOMAIN l : l[n].x = x /\ l[n].y = y}

\* the row on top of a cell: the highest z
TopRow(l, x, y) == CHOOSE n \in RowsAt(l, x, y) : \A m \in RowsAt(l, x, y) : l[m].z <= l[n].z

\* the land without its n-th row
RemoveRow(l, n) == [m \in 1..(Len(l) - 1) |-> IF m < n THEN l[m] ELSE l[m + 1]]

\* what a mined placeItem(land_id, x, y, 0) leaves of the land: the contract
\* reverts, or it takes the item on top of the cell off the land
UnlockEffects(l, x, y) ==
    {l} \cup (IF RowsAt(l, x, y) = {} THEN {} ELSE {RemoveRow(l, TopRow(l, x, y))})

\* the node mines the pending transaction with the next nonce
Mine ==
    \E tx \in pending :
        /\ tx.nonce = tx_count
        /\ pending' = pending \ {tx}
        /\ tx_count' = tx_count + 1
        /\ IF tx.call.fn = "craftRecipe" /\ CanCraft(inventory, catalog, tx.call.item)
           THEN /\ inventory' = Crafted(inventory, catalog, tx.call.item)
                /\ executed' = Append(executed, tx)
           ELSE UNCHANGED <<inventory, executed>>
        /\ IF tx.call.fn = "placeItem"
           THEN land' \in UnlockEffects(land, tx.call.x, tx.call.y)
           ELSE UNCHANGED land
        /\ UNCHANGED <<block_explorer_url, errors, catalog, craftVars, farmVars>>
        /\ UNCHANGED <<transformations, chain_time, wall_time, cancel, clientVars>>

(***************************** the scan ************************************)
\* index of the first transformation whose base is the item (0: none matches)
MatchingTransformation(ts, itemid) ==
    IF \E n \in 1..Len(ts) : ts[n].base = itemid
    THEN CHOOSE n \in 1..Len(ts) :
            /\ ts[n].base = itemid
            /\ \A m \in 1..(n-1) : ts[m].base # itemid
    ELSE 0

\* total_unlock_time = unlocktime + placementtime
TotalUnlockTime(ts, item) ==
    ts[MatchingTransformation(ts, item.itemid)].unlocktime + item.placementtime

\* variant: an item is taken as elapsed only after its deadline
ElapsedStrict(total, timestamp) == total < timestamp

\* `if total_unlock_time <= timestamp`
Elapsed(total, timestamp) == total <= timestamp

\* the coordinates list the scan builds, one entry per row of the land
RECURSIVE ScanCoordinates(_, _, _)
ScanCoordinates(l, ts, timestamp) ==
    IF l = <<>> THEN <<>>
    ELSE LET item == Head(l)
             rest == ScanCoordinates(Tail(l), ts, timestamp)
         IN  IF /\ MatchingTransformation(ts, item.itemid) # 0
                /\ Elapsed(TotalUnlockTime(ts, item), timestamp)
             THEN << <<item.x, item.y>> >> \o rest
             ELSE rest

\* closest_unlock_time after the rows of l, starting from `closest`
RECURSIVE ScanClosest(_, _, _, _)
ScanClosest(l, ts, timestamp, closest) ==
    IF l = <<>> THEN closest
    ELSE LET item == Head(l)
             total == TotalUnlockTime(ts, item)
         IN  IF /\ MatchingTransformation(ts, item.itemid) # 0
                /\ ~Elapsed(total, timestamp)
                /\ (closest = NoTime \/ total < closest)
             THEN ScanClosest(Tail(l), ts, timestamp, total)
             ELSE ScanClosest(Tail(l), ts, timestamp, closest)

\* Player.get_unlockable_transformations
get_unlockable_transformations(l, ts, timestamp) ==
    [coordinates |-> ScanCoordinates(l, ts, timestamp),
     nextUnlock  |-> ScanClosest(l, ts, timestamp, NoTime)]

\* the indexer and the node answer the scan, or the scan raises
ScanOutcomes == {"ok", "raise"}

\* `coord in unlock_data['coordinates']`
Listed(coord, coords) == \E n \in 1..Len(coords) : coords[n] = coord

\* `if next_unlock_time:` is false for None and for 0
Truthy(t) == t # NoTime /\ t # 0

(***************************** unlock_all / auto_farm **********************)
\* the list the current pass iterates over
PassList == IF pass = "first" THEN ua_coordinates ELSE failed_items

\* the call object place_item builds for "unlock": placeItem(land_id, x, y, 0)
PlaceCall(coord) == [fn |-> "placeItem", x |-> coord[1], y |-> coord[2], item |-> UnlockItem]

\* a printed line
Line(ev, coord) == [ev |-> ev, pass |-> pass, coord |-> coord]

NoLine == [ev |-> "none", pass |-> "first", coord |-> <<0, 0>>]

NoAttempts == [c \in Coordinates |-> [first |-> 0, retry |-> 0]]

\* variant: a failure ends the pass
ExceptEndsPass(coord) ==
    /\ printed' = Line("failed", coord)
    /\ failed_items' = IF pass = "first" THEN Append(failed_items, coord) ELSE failed_items
    /\ residual' = IF pass = "retry" THEN residual \cup {coord} ELSE residual
    /\ idx' = Len(PassList) + 1
    /\ fpc' = "check"

\* the except branch of a pass: unlock_all appends the coordinate to
\* failed_items, the retry pass of auto_farm only prints it
Except(coord) ==
    /\ printed' = Line("failed", coord)
    /\ failed_items' = IF pass = "first" THEN Append(failed_items, coord) ELSE failed_items
    /\ residual' = IF pass = "retry" THEN residual \cup {coord} ELSE residual
    /\ idx' = idx + 1
    /\ fpc' = "check"

\* place_item returned: the coordinate is reported unlocked
Unlocked(coord) ==
    /\ printed' = Line("unlocked", coord)
    /\ idx' = idx + 1
    /\ fpc' = "check"
    /\ UNCHANGED <<failed_items, residual>>

\* `continue`: the coordinate is not unlockable any more
Skipped(coord) ==
    /\ printed' = Line("skipped", coord)
    /\ idx' = idx + 1
    /\ UNCHANGED <<fpc, failed_items, residual>>

\* display_land, which place_item calls after the submission, returns or raises
DisplayOutcomes == {"ok", "raise"}

AfterSubmission(coord) ==
    \E d \in DisplayOutcomes :
        IF d = "ok" THEN Unlocked(coord) ELSE Except(coord)

\* auto_farm is called
auto_farm ==
    /\ fpc = "idle"
    /\ fpc' = "scan"
    /\ UNCHANGED <<chainVars, craftVars, envVars, clientVars>>
    /\ UNCHANGED <<pass, coordinates, next_unlock_time, ua_coordinates, idx, failed_items,
                   unlock_data, wait_time, cycle, printed, attempts, residual>>

\* the scan at the top of the loop, and the branch on `if coordinates:`
ScanStep(scans) ==
    /\ fpc = "scan"
    /\ \E o \in ScanOutcomes :
        IF o = "raise"
        THEN /\ fpc' = "crashed"
             /\ UNCHANGED <<coordinates, next_unlock_time, cycle, printed, attempts, residual>>
        ELSE LET data == get_unlockable_transformations(land, transformations, chain_time)
             IN  /\ coordinates' = data.coordinates
                 /\ next_unlock_time' = data.nextUnlock
                 /\ cycle' = scans
                 /\ UNCHANGED <<printed, attempts, residual>>
                 /\ fpc' = IF data.coordinates # <<>> THEN "unlock_all" ELSE "sleep"
    /\ UNCHANGED <<chainVars, craftVars, envVars, clientVars>>
    /\ UNCHANGED <<pass, ua_coordinates, idx, failed_items, unlock_data, wait_time>>

\* the scan of one more iteration of `while True`, the iterations counted
farm_scan ==
    /\ cycle < MaxCycles
    /\ ScanStep(cycle + 1)

\* unlock_all starts: its own scan, outside any try
unlock_all ==
    /\ fpc = "unlock_all"
    /\ \E o \in ScanOutcomes :
        IF o = "raise"
        THEN /\ fpc' = "crashed"
             /\ UNCHANGED <<pass, ua_coordinates, idx, failed_items>>
        ELSE /\ ua_coordinates' =
                    get_unlockable_transformations(land, transformations, chain_time).coordinates
             /\ failed_items' = <<>>
             /\ pass' = "first"
             /\ idx' = 1
             /\ fpc' = "check"
    /\ UNCHANGED <<chainVars, craftVars, envVars, clientVars>>
    /\ UNCHANGED <<coordinates, next_unlock_time, unlock_data, wait_time, cycle,
                   printed, attempts, residual>>

\* variant: the recheck never finds the coordinate listed
StillListedNever(coord, fresh) == FALSE

\* variant: the result of the recheck is ignored
StillListedAlways(coord, fresh) == TRUE

\* `if coord not in unlock_data['coordinates']`: the coordinate stays listed
\* by the recheck and goes on to place_item
StillListed(coord, fresh) == Listed(coord, fresh)

\* the recheck made for a coordinate before it is submitted
pass_check ==
    /\ fpc = "check"
    /\ idx <= Len(PassList)
    /\ LET coord == PassList[idx]
           fresh == get_unlockable_transformations(land, transformations, chain_time).coordinates
       IN \E o \in ScanOutcomes :
            IF o = "raise"
            THEN /\ Except(coord)
                 /\ UNCHANGED unlock_data
            ELSE /\ unlock_data' = fresh
                 /\ IF StillListed(coord, fresh)
                    THEN /\ fpc' = "place"
                         /\ UNCHANGED <<idx, failed_items, printed, residual>>
                    ELSE Skipped(coord)
    /\ UNCHANGED <<chainVars, craftVars, envVars, clientVars>>
    /\ UNCHANGED <<pass, coordinates, next_unlock_time, ua_coordinates, wait_time, cycle,
                   attempts>>

\* place_item(x, y, "unlock"): _execute_function_call up to the send
pass_place ==
    /\ fpc = "place"
    /\ LET coord == PassList[idx]
           call == PlaceCall(coord)
           tx == Txn(call, tx_count, <<0, 0>>)
       IN /\ attempts' = [attempts EXCEPT ![coord][pass] = @ + 1]
          /\ \E est \in EstimateResults(call) :
            IF est.type # "ok"
            THEN /\ Except(coord)
                 /\ UNCHANGED <<pending, awaiting>>
            ELSE \E snd \in SendResults(tx.nonce) :
                   IF snd.type \notin {"sent", "replaced"}
                   THEN /\ Except(coord)
                        /\ UNCHANGED <<pending, awaiting>>
                   ELSE /\ pending' = Sent(tx)
                        /\ IF block_explorer_url
                           THEN /\ fpc' = "wait"
                                /\ awaiting' = tx
                                /\ UNCHANGED <<idx, failed_items, printed, residual>>
                           ELSE /\ AfterSubmission(coord)
                                /\ UNCHANGED awaiting
    /\ UNCHANGED <<block_explorer_url, errors, catalog, inventory, tx_count, executed>>
    /\ UNCHANGED <<cpc, item_id, quantity, k, plan, error, caught, sends, ncalls, inv0, envVars, clientVars>>
    /\ UNCHANGED <<pass, coordinates, next_unlock_time, ua_coordinates, unlock_data,
                   wait_time, cycle>>

\* wait_for_transaction_receipt returns, then display_land runs
pass_receipt ==
    /\ fpc = "wait"
    /\ awaiting \notin pending
    /\ awaiting' = NoTx
    /\ AfterSubmission(PassList[idx])
    /\ UNCHANGED <<chainVars, envVars, clientVars>>
    /\ UNCHANGED <<cpc, item_id, quantity, k, plan, error, caught, sends, ncalls, inv0>>
    /\ UNCHANGED <<pass, coordinates, next_unlock_time, ua_coordinates, unlock_data,
                   wait_time, cycle, attempts>>

\* wait_for_transaction_receipt(timeout=120) gives up
pass_timeout ==
    /\ fpc = "wait"
    /\ awaiting \in pending
    /\ awaiting' = NoTx
    /\ Except(PassList[idx])
    /\ UNCHANGED <<chainVars, envVars, clientVars>>
    /\ UNCHANGED <<cpc, item_id, quantity, k, plan, error, caught, sends, ncalls, inv0>>
    /\ UNCHANGED <<pass, coordinates, next_unlock_time, ua_coordinates, unlock_data,
                   wait_time, cycle, attempts>>

\* variant: a cycle that unlocked goes straight back to the scan
EndOfActingSkipsWait == "scan"

\* where auto_farm goes on after `if coordinates:` and its retries: the
\* `if next_unlock_time:` that computes the wait
EndOfActing == "sleep"

\* the list of the pass is exhausted: unlock_all returns failed_items and
\* auto_farm retries them once; after the retry pass the cycle goes to its wait
pass_done ==
    /\ fpc = "check"
    /\ idx > Len(PassList)
    /\ IF pass = "first" /\ failed_items # <<>>
       THEN /\ pass' = "retry"
            /\ idx' = 1
            /\ UNCHANGED fpc
       ELSE /\ fpc' = EndOfActing
            /\ UNCHANGED <<pass, idx>>
    /\ UNCHANGED <<chainVars, craftVars, envVars, clientVars>>
    /\ UNCHANGED <<coordinates, next_unlock_time, ua_coordinates, failed_items,
                   unlock_data, wait_time, cycle, printed, attempts, residual>>

\* variant: the wait ends at next_unlock_time itself, without the margin
WaitTimeNoMargin(next, now) ==
    IF Truthy(next) THEN Max(0, next - now) ELSE DefaultInterval

\* wait_time of the cycle: until next_unlock_time plus the margin, or the
\* default interval
WaitTime(next, now) ==
    IF Truthy(next) THEN Max(0, next - now + SafetyMargin) ELSE DefaultInterval

\* time.sleep(wait_time), then the loop goes back to its scan; the lists of
\* the finished iteration are dead from here on, the next one starts afresh
farm_sleep ==
    /\ fpc = "sleep"
    /\ wait_time' = WaitTime(next_unlock_time, wall_time)
    /\ wall_time + wait_time' <= MaxWall
    /\ wall_time' = wall_time + wait_time'
    /\ fpc' = "scan"
    /\ pass' = "first"
    /\ coordinates' = <<>>
    /\ ua_coordinates' = <<>>
    /\ idx' = 1
    /\ failed_items' = <<>>
    /\ unlock_data' = <<>>
    /\ printed' = NoLine
    /\ attempts' = NoAttempts
    /\ residual' = {}
    /\ UNCHANGED <<chainVars, craftVars, land, transformations, chain_time, cancel, clientVars>>
    /\ UNCHANGED <<next_unlock_time, cycle>>

(***************************** environment *********************************)
\* a second passes on the local clock
Tick ==
    /\ wall_time < MaxTime
    /\ wall_time' = wall_time + 1
    /\ UNCHANGED <<chainVars, craftVars, farmVars, land, transformations, chain_time, cancel, clientVars>>

\* a block is produced: its timestamp is later than the last one and not in
\* the future
NewBlock ==
    /\ \E t \in (chain_time + 1)..wall_time :
          /\ t <= MaxTime
          /\ chain_time' = t
    /\ UNCHANGED <<chainVars, craftVars, farmVars, land, transformations, wall_time, cancel, clientVars>>

(***************************** Player.__init__ *****************************)
\* addresses: the one of the player's key, and another account
PlayerAddress == "0xPlayer"
Addresses == {PlayerAddress, "0xOther"}

\* ownerOf(i) reverts: no such land
NoOwner == "none"

\* ids of LandNFTs
LandIds == 1..MaxLand

\* find_player_lands: ids from 1 up, until ownerOf raises or `amount` lands
\* of the address are found
RECURSIVE FindFrom(_, _, _, _, _)
FindFrom(own, address, amount, i, lands) ==
    IF i \notin DOMAIN own \/ own[i] = NoOwner
    THEN lands
    ELSE IF own[i] = address
         THEN IF amount > 0 /\ Len(lands) + 1 >= amount
              THEN Append(lands, i)
              ELSE FindFrom(own, address, amount, i + 1, Append(lands, i))
         ELSE FindFrom(own, address, amount, i + 1, lands)

find_player_lands(own, address, amount) == FindFrom(own, address, amount, 1, <<>>)

\* no Player object yet
NoSession == [arg |-> NoLand, state |-> "none", land_id |-> NoLand, error |-> ""]

\* the Player object: self.land_id is set
Ready(arg, lid) == [arg |-> arg, state |-> "ready", land_id |-> lid, error |-> ""]

\* the constructor raised: no object, no land_id
Failed(arg, e) == [arg |-> arg, state |-> "failed", land_id |-> NoLand, error |-> e]

\* variant: the owner of the land is not compared with the player's address
IsOwnerUnchecked(o, address) == TRUE

\* `ownerOf(land_id).call() != self.player_address` is false
IsOwner(o, address) == o = address

\* Player(world, key, land_id = arg): the first land of the player when no
\* land id is given, else the given one if the player owns it
Player_init(arg) ==
    /\ session' =
          IF arg = NoLand
          THEN LET land_ids == find_player_lands(owner, PlayerAddress, 1)
               IN  IF land_ids = <<>>
                   THEN Failed(arg, "IndexError")
                   ELSE Ready(arg, land_ids[1])
          ELSE IF owner[arg] = NoOwner
               THEN Failed(arg, "ContractLogicError")
               ELSE IF ~IsOwner(owner[arg], PlayerAddress)
                    THEN Failed(arg, "ValueError: The player does not own the specified land.")
                    ELSE Ready(arg, arg)
    /\ UNCHANGED <<chainVars, craftVars, envVars, farmVars, owner, craftable, grid, dispatch>>

\* the chain: a land is minted for, or transferred to, an address
Transfer(lid, to) ==
    /\ owner[lid] # to
    /\ owner' = [owner EXCEPT ![lid] = to]
    /\ UNCHANGED <<chainVars, craftVars, envVars, farmVars, session, craftable, grid, dispatch>>

(***************************** specifications ******************************)
(***************************** get_craftable *******************************)
\* Items.csv: ID -> Name as written in the file, a string being the sequence
\* of its characters
ItemsCsv ==
    (1 :> <<"W", "o", "o", "d">>) @@ (2 :> <<"S", "t", "o", "n", "e", " ">>)
        @@ (3 :> <<"T", "a", "b", "l", "e">>)

\* str.lower on the characters of the names
LowerChar(c) ==
    CASE c = "W" -> "w"
      [] c = "S" -> "s"
      [] c = "T" -> "t"
      [] OTHER -> c

Lower(str) == [n \in DOMAIN str |-> LowerChar(str[n])]

\* str.strip
RECURSIVE Strip(_)
Strip(str) ==
    IF str = <<>> THEN str
    ELSE IF Head(str) = " " THEN Strip(Tail(str))
    ELSE IF str[Len(str)] = " " THEN Strip(SubSeq(str, 1, Len(str) - 1))
    ELSE str

\* id_to_name of get_craftable: the stripped name of an id of Items.csv
IdToName(id) == Strip(ItemsCsv[id])

\* get_inventory: the rows of a non-zero quantity, as a dict name -> quantity
get_inventory(inv) ==
    LET held == {z \in Items : inv[z] # 0}
    IN  [name \in {ItemsCsv[z] : z \in held} |->
            inv[CHOOSE z \in held : ItemsCsv[z] = name]]

\* standardized_inventory: the keys stripped and in lower case
Standardized(dict) ==
    [key \in {Lower(Strip(name)) : name \in DOMAIN dict} |->
        dict[CHOOSE name \in DOMAIN dict : Lower(Strip(name)) = key]]

\* dict.get(key, 0)
Get(dict, key) == IF key \in DOMAIN dict THEN dict[key] ELSE 0

\* float('inf'): above every quantity
Inf == 1000000

\* variant: the available quantity is not divided by the required one
PossibleUndivided(available, required) == available

\* `available_quantity // input_quantity`
Possible(available, required) == available \div required

\* the loop over zip(input_ids, input_quantities) from input n on
RECURSIVE MaxCraftable(_, _, _, _)
MaxCraftable(r, std, n, max_craftable) ==
    IF n > Len(r.inputs) \/ n > Len(r.quantities)
    THEN max_craftable
    ELSE LET available_quantity == Get(std, Lower(IdToName(r.inputs[n])))
             input_quantity == r.quantities[n]
             possible == Possible(available_quantity, input_quantity)
         IN  IF available_quantity < input_quantity
             THEN 0
             ELSE MaxCraftable(r, std, n + 1,
                               IF possible < max_craftable THEN possible ELSE max_craftable)

\* the rows of the DataFrame, one per recipe with max_craftable > 0
RECURSIVE CraftableRows(_, _, _)
CraftableRows(recipes, std, i) ==
    IF i > Len(recipes)
    THEN <<>>
    ELSE LET m == MaxCraftable(recipes[i], std, 1, Inf)
             row == [item_id |-> recipes[i].output,
                     item_name |-> IdToName(recipes[i].output),
                     max_craftable |-> m]
         IN  (IF m > 0 THEN <<row>> ELSE <<>>) \o CraftableRows(recipes, std, i + 1)

\* no DataFrame was returned yet
NoFrame == [called |-> FALSE, rows |-> <<>>]

\* player.get_craftable()
get_craftable ==
    /\ craftable' = [called |-> TRUE,
                     rows |-> CraftableRows(catalog, Standardized(get_inventory(inventory)), 1)]
    /\ UNCHANGED <<chainVars, craftVars, envVars, farmVars, owner, session, grid, dispatch>>

\* recipes with two inputs and different quantities
CraftableCatalogs ==
    Catalogs \cup
    { << Recipe(3, <<1, 2>>, <<2, 1>>) >>,
      << Recipe(2, <<3>>, <<2>>), Recipe(3, <<2, 1>>, <<1, 2>>) >> }

(***************************** get_land ************************************)
\* the cells of the grid: range(10) x range(10)
GridCells == (0..(GridSize - 1)) \X (0..(GridSize - 1))

\* variant: the items of a cell are sorted on z alone
KeyLeqOnZ(a, b) == a[1] <= b[1]

\* the sort key (z, placementtime) of a triple (z, t, item): a <= b
KeyLeq(a, b) == a[1] < b[1] \/ (a[1] = b[1] /\ a[2] <= b[2])

\* list.sort is stable: a triple goes behind those whose key is not larger
RECURSIVE InsertSorted(_, _)
InsertSorted(sorted, e) ==
    IF sorted = <<>> THEN <<e>>
    ELSE IF KeyLeq(sorted[Len(sorted)], e)
         THEN Append(sorted, e)
         ELSE Append(InsertSorted(SubSeq(sorted, 1, Len(sorted) - 1), e), sorted[Len(sorted)])

RECURSIVE SortItems(_)
SortItems(items) ==
    IF items = <<>> THEN <<>>
    ELSE InsertSorted(SortItems(SubSeq(items, 1, Len(items) - 1)), items[Len(items)])

\* coord_map[(x, y)]: the triples (z, t, item) of the rows of a cell, in the
\* order of the rows
RECURSIVE CoordItems(_, _)
CoordItems(rows, cell) ==
    IF rows = <<>> THEN <<>>
    ELSE LET row == Head(rows)
         IN  (IF <<row.x, row.y>> = cell
              THEN << <<row.z, row.placementtime, row.itemid>> >>
              ELSE <<>>) \o CoordItems(Tail(rows), cell)

\* top_items.get((x, y), np.nan): the item of the last triple after the sort
TopItem(rows, cell) ==
    LET items == SortItems(CoordItems(rows, cell))
    IN  IF items = <<>> THEN NaN ELSE items[Len(items)][3]

\* no grid was returned yet: a frame without a cell
NoGrid == [called |-> FALSE, cells |-> [cell \in {} |-> NaN]]

\* get_land(world, land_id)
get_land ==
    /\ grid' = [called |-> TRUE, cells |-> [cell \in GridCells |-> TopItem(land, cell)]]
    /\ UNCHANGED <<chainVars, craftVars, envVars, farmVars, owner, session, craftable, dispatch>>

\* LandItem rows for get_land: two cells of the grid and one off it, two
\* levels, two placement times, two items
GridRows ==
    {[x |-> cx, y |-> cy, z |-> cz, placementtime |-> t, itemid |-> it] :
        cx \in {0, GridSize}, cy \in {0, 1}, cz \in {0, 1}, t \in {0, 1}, it \in {1, 2}}

\* LandItem tables in any order of the rows
GridLands == UNION {[1..n -> GridRows] : n \in 0..MaxItems}

(***************************** World._wrap_function ************************)
\* the modes the docstring of wrapped_function names
DocumentedModes == {"raw", "call", "transact", "estimateGas", "buildTransaction"}

\* modes a caller passes: the documented ones, the ones the code compares
\* with, and one that is neither
WrapModes == DocumentedModes \cup {"estimate_gas", "build_transaction", "send"}

\* the functions of the World contract that are wrapped
WrappedFunctions == {"craftRecipe", "placeItem", "createLand"}

\* the contract operation a mode is dispatched to ("none": no branch of the
\* if/elif chain takes the mode)
OperationOf(mode) ==
    CASE mode = "raw" -> "fn"
      [] mode = "call" -> "call"
      [] mode = "transact" -> "transact"
      [] mode = "estimate_gas" -> "estimate_gas"
      [] mode = "build_transaction" -> "build_transaction"
      [] OTHER -> "none"

\* what the operation does: it returns, or web3 raises
OperationOutcomes(op) ==
    IF op = "fn"
    THEN {[type |-> "ok", data |-> <<>>]}
    ELSE {[type |-> "ok", data |-> <<>>], [type |-> "Exception", data |-> <<"revert">>]}
            \cup {[type |-> "ContractCustomError", data |-> d] : d \in ErrorData}

HexDigits == {"0", "1", "2", "3", "4", "5", "6", "7", "8", "9",
              "a", "b", "c", "d", "e", "f", "A", "B", "C", "D", "E", "F"}

\* re.search(r'0x[a-fA-F0-9]{8}', error_str): the positions where it matches
HexMatches(str) ==
    {p \in 1..(Len(str) - 9) :
        /\ str[p] = "0"
        /\ str[p + 1] = "x"
        /\ \A q \in (p + 2)..(p + 9) : str[q] \in HexDigits}

\* what wrapped_function returns or raises
Returned(op) == [kind |-> "returned", op |-> op, detail |-> <<>>]
Raised(op, detail) == [kind |-> "raised", op |-> op, detail |-> detail]

\* _parse_error_and_reraise(e): the friendly ValueError when the text of the
\* exception holds the selector of a known error, else the exception itself
ParseErrorAndReraise(op, e, func_name) ==
    LET error_str == e.data
        first == CHOOSE p \in HexMatches(error_str) : \A q \in HexMatches(error_str) : p <= q
        selector == Slice(SubSeq(error_str, first, first + 9), 2, 10)
    IN  IF HexMatches(error_str) # {} /\ selector \in DOMAIN errors
        THEN Raised(op, <<"ValueError", errors[selector][2], errors[selector][1], func_name>>)
        ELSE Raised(op, <<e.type>> \o e.data)

\* no wrapped function was called yet
NoDispatch == [called |-> FALSE, func_name |-> "", mode |-> "", outcome |-> Returned("none")]

\* world.<func_name>(*args, mode = mode)
wrapped_function(func_name, mode) ==
    /\ LET op == OperationOf(mode)
       IN  \E o \in (IF op = "none"
                     THEN {[type |-> "ValueError", data |-> <<"Unknown mode", mode>>]}
                     ELSE OperationOutcomes(op)) :
              dispatch' = [called |-> TRUE, func_name |-> func_name, mode |-> mode,
                           outcome |-> IF o.type = "ok"
                                       THEN Returned(op)
                                       ELSE ParseErrorAndReraise(op, o, func_name)]
    /\ UNCHANGED <<chainVars, craftVars, envVars, farmVars, owner, session, craftable, grid>>

\* the state after World and Player are constructed
InitChain ==
    /\ block_explorer_url \in BOOLEAN
    /\ errors = ExtractAllErrors
    /\ tx_count = 0
    /\ pending = {}
    /\ executed = <<>>

InitIdle ==
    /\ cpc = "idle"
    /\ item_id = 0
    /\ quantity = 0
    /\ k = 0
    /\ plan = <<>>
    /\ awaiting = NoTx
    /\ error = NoError
    /\ caught = NoExc
    /\ sends = 0
    /\ ncalls = 0
    /\ inv0 = inventory
    /\ fpc = "idle"
    /\ pass = "first"
    /\ coordinates = <<>>
    /\ next_unlock_time = NoTime
    /\ ua_coordinates = <<>>
    /\ idx = 1
    /\ failed_items = <<>>
    /\ unlock_data = <<>>
    /\ wait_time = 0
    /\ cycle = 0
    /\ printed = NoLine
    /\ attempts = NoAttempts
    /\ residual = {}
    /\ cancel = FALSE

\* no Player object is being constructed: the player owns every land
InitClient ==
    /\ owner = [i \in LandIds |-> PlayerAddress]
    /\ session = NoSession
    /\ craftable = NoFrame
    /\ grid = NoGrid
    /\ dispatch = NoDispatch

\* crafting: any catalog and inventory, an empty land
InitCraft ==
    /\ InitChain
    /\ InitClient
    /\ catalog \in Catalogs
    /\ inventory \in [Items -> 0..MaxQty]
    /\ land = <<>>
    /\ transformations = <<>>
    /\ chain_time = 0
    /\ wall_time = 0
    /\ InitIdle

NextCraft ==
    \/ \E item \in Items, q \in 0..MaxQuantity : craft_item(item, q)
    \/ craft_return
    \/ craft_step
    \/ craft_receipt
    \/ craft_timeout
    \/ Mine

SpecCraft == InitCraft /\ [][NextCraft]_vars

\* the unlock loop: any land and transformation table, the block timestamp
\* at or behind the local clock
InitFarm ==
    /\ InitChain
    /\ InitClient
    /\ catalog = <<>>
    /\ inventory = [z \in Items |-> 0]
    /\ land \in Lands
    /\ transformations \in TransformationTables
    /\ chain_time = 0
    /\ wall_time \in 0..1
    /\ InitIdle

NextFarm ==
    \/ auto_farm
    \/ farm_scan
    \/ unlock_all
    \/ pass_check
    \/ pass_place
    \/ pass_receipt
    \/ pass_timeout
    \/ pass_done
    \/ farm_sleep
    \/ Mine
    \/ Tick
    \/ NewBlock

SpecFarm == InitFarm /\ [][NextFarm]_vars

\* the scan of one more iteration, answered by the indexer and the node; the
\* iterations are not counted
live_scan ==
    /\ ScanStep(cycle)
    /\ fpc' # "crashed"

\* unlock_all starts and its scan is answered
live_unlock_all ==
    /\ unlock_all
    /\ fpc' # "crashed"

\* the recheck of a coordinate is answered
live_check ==
    /\ pass_check
    /\ ~(idx' = idx + 1 /\ printed'.ev = "failed")

\* the node mines a pending transaction, up to MaxMined of them
live_mine ==
    /\ tx_count < MaxMined
    /\ Mine

NextLive ==
    \/ auto_farm
    \/ live_scan
    \/ live_unlock_all
    \/ live_check
    \/ pass_place
    \/ pass_receipt
    \/ pass_timeout
    \/ pass_done
    \/ farm_sleep
    \/ live_mine
    \/ Tick
    \/ NewBlock

\* the loop runs on as long as it has a step to make, and time advances
FairLive ==
    /\ WF_vars(live_scan)
    /\ WF_vars(live_unlock_all)
    /\ WF_vars(live_check)
    /\ WF_vars(pass_place)
    /\ WF_vars(pass_receipt)
    /\ WF_vars(pass_timeout)
    /\ WF_vars(pass_done)
    /\ WF_vars(farm_sleep)
    /\ WF_vars(Tick)
    /\ WF_vars(NewBlock)

\* the unlock loop without an end, every scan answered, under fairness
SpecLive == InitFarm /\ [][NextLive]_vars /\ FairLive

\* the caller of auto_farm asks the loop to stop: auto_farm takes no argument
\* and its `while True` reads no flag, so this changes nothing else
Cancel ==
    /\ ~cancel
    /\ fpc \notin {"idle", "crashed"}
    /\ cancel' = TRUE
    /\ UNCHANGED <<chainVars, craftVars, farmVars, land, transformations, chain_time, wall_time, clientVars>>

NextCancel ==
    \/ NextFarm
    \/ Cancel

\* the unlock loop with a caller that may ask it to stop
SpecCancel == InitFarm /\ [][NextCancel]_vars

\* constructions of Player over any ownership of the lands
InitSession ==
    /\ InitChain
    /\ catalog = <<>>
    /\ inventory = [z \in Items |-> 0]
    /\ land = <<>>
    /\ transformations = <<>>
    /\ chain_time = 0
    /\ wall_time = 0
    /\ InitIdle
    /\ owner \in [LandIds -> Addresses \cup {NoOwner}]
    /\ session = NoSession
    /\ craftable = NoFrame
    /\ grid = NoGrid
    /\ dispatch = NoDispatch

NextSession ==
    \/ \E arg \in LandIds \cup {NoLand} : Player_init(arg)
    \/ \E lid \in LandIds, to \in Addresses : Transfer(lid, to)

SpecSession == InitSession /\ [][NextSession]_vars

\* get_craftable over any catalog and inventory
InitCraftable ==
    /\ InitChain
    /\ catalog \in CraftableCatalogs
    /\ inventory \in [Items -> 0..MaxQty]
    /\ land = <<>>
    /\ transformations = <<>>
    /\ chain_time = 0
    /\ wall_time = 0
    /\ InitIdle
    /\ InitClient

NextCraftable ==
    \/ get_craftable

SpecCraftable == InitCraftable /\ [][NextCraftable]_vars

\* get_land over any LandItem table
InitLand ==
    /\ InitChain
    /\ catalog = <<>>
    /\ inventory = [z \in Items |-> 0]
    /\ land \in GridLands
    /\ transformations = <<>>
    /\ chain_time = 0
    /\ wall_time = 0
    /\ InitIdle
    /\ InitClient

NextLand ==
    \/ get_land

SpecLand == InitLand /\ [][NextLand]_vars

\* calls of the wrapped functions of World
InitWrap ==
    /\ InitChain
    /\ catalog = <<>>
    /\ inventory = [z \in Items |-> 0]
    /\ land = <<>>
    /\ transformations = <<>>
    /\ chain_time = 0
    /\ wall_time = 0
    /\ InitIdle
    /\ InitClient

NextWrap ==
    \/ \E func_name \in WrappedFunctions, mode \in WrapModes : wrapped_function(func_name, mode)

SpecWrap == InitWrap /\ [][NextWrap]_vars

TypeOK ==
    /\ cpc \in {"idle", "loop", "wait", "returned", "raised"}
    /\ k \in 0..MaxQuantity
    /\ Cardinality(pending) <= 1
    /\ \A z \in Items : inventory[z] >= 0
    /\ fpc \in {"idle", "scan", "unlock_all", "check", "place", "wait", "sleep", "crashed"}
    /\ chain_time <= wall_time

(***************************** claims: crafting ****************************)
\* transactions of the current craft_item call that are pooled or mined
CallTxs ==
    {tx \in pending \cup {executed[i] : i \in DOMAIN executed} : tx.tag[1] = ncalls}

\* inputs of the item's recipe (none for a raw item)
Inputs(cat, item) ==
    IF HasRecipe(cat, item)
    THEN {z \in Items : Needed(RecipeOf(cat, item), z) > 0}
    ELSE {}

C3_Sufficiency ==
    (cpc = "returned" /\ quantity >= 1 /\ pending = {})
        => inventory[item_id] >= quantity

\* the request cannot be met from the inventory and the catalog: the target
\* has to be crafted and a raw input of its recipe is short
Unreachable(inv, cat, item, q) ==
    /\ HasRecipe(cat, item)
    /\ q > inv[item]
    /\ \E z \in Inputs(cat, item) :
          /\ ~HasRecipe(cat, z)
          /\ inv[z] < (q - inv[item]) * Needed(RecipeOf(cat, item), z)

Range(q) == {q[n] : n \in DOMAIN q}

\* rows of the land whose item has a transformation definition
Matching(l, ts) == {n \in DOMAIN l : \E m \in DOMAIN ts : ts[m].base = l[n].itemid}

\* placement_time + unlock_delay of a matching row
Deadline(l, ts, n) == TotalUnlockTime(ts, l[n])

ReadyCoordinates(l, ts, T) ==
    {<<l[n].x, l[n].y>> : n \in {m \in Matching(l, ts) : Deadline(l, ts, m) <= T}}

FutureDeadlines(l, ts, T) ==
    {Deadline(l, ts, n) : n \in {m \in Matching(l, ts) : Deadline(l, ts, m) > T}}

MinOf(S) == CHOOSE m \in S : \A o \in S : m <= o

Fresh == get_unlockable_transformations(land, transformations, chain_time).coordinates

\* the step calls place_item for the coordinate
Submits(c) == attempts'[c][pass] > attempts[c][pass]

\* C6: in both passes place_item is called for a coordinate only right after
\* a fresh scan that lists it; a coordinate the fresh scan does not list is
\* passed over with no submission and is not added to failed_items.
C6_Reverification ==
    [][/\ (fpc' = "place" /\ fpc # "place")
            => /\ fpc = "check"
               /\ unlock_data' = Fresh
               /\ Listed(PassList[idx], Fresh)
       /\ \A c \in Coordinates :
            Submits(c) => /\ fpc = "place"
                          /\ c = PassList[idx]
                          /\ Listed(c, unlock_data)
       /\ (fpc = "check" /\ idx <= Len(PassList) /\ (idx' # idx \/ fpc' # fpc)
             /\ ~Listed(PassList[idx], Fresh))
            => /\ fpc' = "check"
               /\ idx' = idx + 1
               /\ attempts' = attempts
               /\ pending' = pending
               /\ printed'.ev \in {"skipped", "failed"}
               /\ printed'.ev = "skipped" => failed_items' = failed_items]_vars

\* C6 witness: a coordinate that failed in the first pass was found not
\* unlockable any more by the recheck of the retry pass and was passed over.
C6_Witness ==
    /\ printed.ev = "skipped"
    /\ printed.pass = "retry"
    /\ attempts[printed.coord].first >= 1
    /\ attempts[printed.coord].retry = 0

\* C7 (as stated): in a cycle a coordinate gets at most one retry attempt, and
\* only a coordinate that failed in the first pass gets one.
C7_BoundedRetry ==
    \A c \in Coordinates :
        /\ attempts[c].retry <= 1
        /\ attempts[c].retry >= 1 => c \in Range(failed_items)

\* C8 (as stated): at the end of a cycle that acted, the failure list of the
\* cycle holds exactly the coordinates that failed in the first pass and
\* again in the retry pass, and none of them was submitted again.
C8_ResidualSurfaced ==
    (fpc = "sleep" /\ coordinates # <<>>)
        => /\ Range(failed_items) = residual
           /\ \A c \in residual : attempts[c].retry <= 1

\* the states of a cycle in which it unlocks
Acting == {"unlock_all", "check", "place", "wait"}

C10_WaitDuration ==
    [][(fpc = "sleep" /\ fpc' = "scan")
          => /\ wait_time' = IF next_unlock_time # NoTime
                             THEN Max(0, next_unlock_time - chain_time + SafetyMargin)
                             ELSE DefaultInterval
             /\ wait_time' >= 0]_vars

\* the scan of the cycle found an elapsed item and an item still to come
Mixed == coordinates # <<>> /\ next_unlock_time # NoTime

C12_Cancellation ==
    [][cancel => /\ ~(fpc = "scan" /\ fpc' # "scan")
                 /\ ~(fpc = "unlock_all" /\ fpc' # "unlock_all")
                 /\ ~(fpc = "check" /\ (fpc' # "check" \/ idx' # idx \/ pass' # pass))
                 /\ ~(fpc = "place" /\ fpc' # "place")
                 /\ ~(fpc = "sleep" /\ fpc' # "sleep")]_vars

\* C13 (as stated): a scan at the start of a cycle, failed or not, leaves
\* the loop running: the cycle goes on to its unlock passes or to a wait (the
\* default interval after a failed scan) and never out of the loop.
C13_ScanFailureSurvivable ==
    [][fpc = "scan" => fpc' \in {"scan", "unlock_all", "sleep"}]_vars

(***************************** claims: the executor *************************)
\* the error data begins, after "0x", with the 8 hex digits of the selector
CarriesSelector(data, sel) ==
    /\ Len(data) >= 10
    /\ \A n \in 1..8 : data[n + 2] = sel[n]

\* the selector of the error data is one the ABIs declare
InTable(data) == \E a \in AbiErrors : CarriesSelector(data, a.selector)

\* C14: the exception raised for a failed submission is of exactly one of
\* three kinds: for a contract custom error whose selector the table holds,
\* "custom error" with the name of that error; for a contract custom error
\* with another selector, "unknown custom error" with the raw error data; for
\* any other exception, "failed" with its message.  A custom error is never
\* reported as "failed".
C14_FailureDecoding ==
    cpc = "raised" =>
        /\ error.kind \in {"custom error", "unknown custom error", "failed"}
        /\ (caught.type = "ContractCustomError" /\ InTable(caught.data))
              => /\ error.kind = "custom error"
                 /\ \E a \in AbiErrors : /\ CarriesSelector(caught.data, a.selector)
                                         /\ error.detail = <<a.name>>
        /\ (caught.type = "ContractCustomError" /\ ~InTable(caught.data))
              => error = [kind |-> "unknown custom error", detail |-> caught.data]
        /\ caught.type # "ContractCustomError"
              => error = [kind |-> "failed", detail |-> caught.data]

\* C14 witness: a custom error with arguments, whose selector the table
\* holds, was raised under its name.
C14_Witness ==
    /\ cpc = "raised"
    /\ caught.type = "ContractCustomError"
    /\ Len(caught.data) > 10
    /\ error = [kind |-> "custom error", detail |-> <<"InsufficientItems">>]

\* an _execute_function_call of the current craft_item has ended or is
\* waiting for its receipt
CallMade == cpc \in {"raised", "wait"} \/ (cpc \in {"loop", "returned"} /\ k >= 1)

\* the exception came before send_raw_transaction was reached
BeforeSend(e) == e.type = "ContractCustomError" \/ e.data = <<"estimate_gas">>

C16_SubmissionOrder ==
    [][/\ \A tx \in pending' \ pending :
            /\ tx.tag = <<ncalls, Len(plan) + 1>>
            /\ k = Len(plan)
            /\ plan' = Append(plan, tx.call.item)
       /\ \A i, j \in DOMAIN executed' :
            (i < j /\ executed'[i].tag[1] = executed'[j].tag[1])
                => executed'[i].tag[2] < executed'[j].tag[2]]_vars

\* C16 witness: the two operations of a plan were mined, the first one first.
C16_Witness ==
    \E i, j \in DOMAIN executed :
        /\ i < j
        /\ executed[i].tag = <<ncalls, 1>>
        /\ executed[j].tag = <<ncalls, 2>>

\* C17 (as stated): when the wait for the receipt runs out, the error raised
\* to the caller is of a kind of its own, not one of the kinds raised for a
\* rejected or a failed submission.
C17_TimeoutDistinct ==
    (cpc = "raised" /\ caught.data = <<"timeout">>)
        => error.kind \notin {"custom error", "unknown custom error", "failed"}

(***************************** claims: planning *****************************)
\* C18: craft_item(X, 0) emits no operation and submits nothing, for every
\* item X, inventory and catalog: it returns with an empty plan.
C18_ZeroQuantity ==
    (cpc # "idle" /\ quantity = 0)
        => /\ plan = <<>>
           /\ CallTxs = {}
           /\ sends = 0
           /\ error = NoError
           /\ cpc \in {"loop", "returned"}

\* C18 witness: a call with quantity 0 has returned.
C18_Witness ==
    /\ cpc = "returned"
    /\ quantity = 0
    /\ ncalls >= 1

C21_OwnershipCheck ==
    [][session' # session
          => /\ (session'.arg # NoLand /\ owner[session'.arg] \notin {PlayerAddress, NoOwner})
                   => /\ session'.state = "failed"
                      /\ session'.error = "ValueError: The player does not own the specified land."
                      /\ session'.land_id = NoLand
             /\ session'.state = "ready"
                   => /\ session'.land_id \in LandIds
                      /\ owner[session'.land_id] = PlayerAddress
             /\ pending' = pending
             /\ tx_count' = tx_count]_vars

\* C21 witness: a construction with the id of another account's land failed.
C21_Witness ==
    /\ session.state = "failed"
    /\ session.arg \in LandIds
    /\ session.error = "ValueError: The player does not own the specified land."

\* floor(available / required) of the n-th input of a recipe
InputRatio(r, inv, n) == inv[r.inputs[n]] \div r.quantities[n]

\* the minimum over the inputs of a recipe
RecipeMax(r, inv) ==
    CHOOSE m \in {InputRatio(r, inv, n) : n \in DOMAIN r.inputs} :
        \A n \in DOMAIN r.inputs : m <= InputRatio(r, inv, n)

\* C22: the max quantity get_craftable reports for a recipe is the minimum
\* over its inputs of floor(available / required); a recipe of max quantity 0
\* is not in the returned list and every recipe of max quantity >= 1 is.
C22_Craftable ==
    craftable.called
        => /\ \A i \in DOMAIN catalog :
                LET m == RecipeMax(catalog[i], inventory)
                IN  /\ m >= 1 => \E n \in DOMAIN craftable.rows :
                                    /\ craftable.rows[n].item_id = catalog[i].output
                                    /\ craftable.rows[n].max_craftable = m
                    /\ m = 0 => \A n \in DOMAIN craftable.rows :
                                    craftable.rows[n].item_id # catalog[i].output
           /\ \A n \in DOMAIN craftable.rows :
                \E i \in DOMAIN catalog :
                    /\ craftable.rows[n].item_id = catalog[i].output
                    /\ craftable.rows[n].max_craftable = RecipeMax(catalog[i], inventory)
           /\ Len(craftable.rows) <= Len(catalog)

\* C22 witness: of two recipes one is listed, with a max quantity set by its
\* scarcest input, and the other, short of an input, is left out.
C22_Witness ==
    /\ craftable.called
    /\ Len(catalog) = 2
    /\ Len(craftable.rows) = 1
    /\ \E i \in DOMAIN catalog :
          /\ Len(catalog[i].inputs) = 2
          /\ craftable.rows[1].item_id = catalog[i].output
          /\ \E n \in DOMAIN catalog[i].inputs :
                InputRatio(catalog[i], inventory, n) > craftable.rows[1].max_craftable

\* the rows of a LandItem table placed in a cell
PlacedAt(rows, cell) == {n \in DOMAIN rows : <<rows[n].x, rows[n].y>> = cell}

\* row n is on top of its cell: highest z, and the latest placement among
\* the rows of that z
OnTop(rows, n) ==
    \A m \in PlacedAt(rows, <<rows[n].x, rows[n].y>>) :
        \/ rows[m].z < rows[n].z
        \/ rows[m].z = rows[n].z /\ rows[m].placementtime <= rows[n].placementtime

\* C23: for every cell of the 10x10 grid that holds a placed item get_land
\* reports the item of highest z, the latest placed among those of equal z;
\* a cell without a placed item is reported empty.
C23_VisibleOccupant ==
    grid.called
        => \A cell \in GridCells :
              IF PlacedAt(land, cell) = {}
              THEN grid.cells[cell] = NaN
              ELSE \E n \in PlacedAt(land, cell) :
                      /\ OnTop(land, n)
                      /\ grid.cells[cell] = land[n].itemid

\* C23 witness: two items of equal z in a cell, the earlier placed row read
\* last, and the later placed one is reported.
C23_Witness ==
    /\ grid.called
    /\ \E a, b \in DOMAIN land :
          /\ a < b
          /\ <<land[a].x, land[a].y>> = <<0, 0>>
          /\ <<land[b].x, land[b].y>> = <<0, 0>>
          /\ land[a].z = land[b].z
          /\ land[a].placementtime > land[b].placementtime
          /\ land[a].itemid # land[b].itemid
          /\ grid.cells[<<0, 0>>] = land[a].itemid

(***************************** claims: the unlock loop, continued ***********)
\* C24: a failure of the recheck or of the submission for one coordinate of
\* a pass is recorded for that coordinate (collected by the first pass,
\* reported by the retry pass) and the pass goes on with the next coordinate
\* of its list; no step of a pass skips a coordinate or ends the loop.
C24_FailureIsolation ==
    [][(fpc \in {"check", "place", "wait"} /\ idx <= Len(PassList))
          => /\ fpc' \in {"check", "place", "wait"}
             /\ pass' = pass
             /\ idx' \in {idx, idx + 1}
             /\ pass = "first" => ua_coordinates' = ua_coordinates
             /\ pass = "retry" => failed_items' = failed_items
             /\ (printed'.ev = "failed" /\ idx' = idx + 1)
                   => /\ fpc' = "check"
                      /\ printed'.coord = PassList[idx]
                      /\ pass = "first" => failed_items' = Append(failed_items, PassList[idx])
                      /\ pass = "retry" => PassList[idx] \in residual']_vars

\* C24 witness: the first coordinate of a pass failed and the second one got
\* its attempt.
C24_Witness ==
    /\ pass = "first"
    /\ Len(ua_coordinates) = 2
    /\ ua_coordinates[1] # ua_coordinates[2]
    /\ failed_items # <<>>
    /\ failed_items[1] = ua_coordinates[1]
    /\ attempts[ua_coordinates[2]].first >= 1

\* the contract operation the documentation of a mode stands for
DocumentedOperation(mode) ==
    CASE mode = "raw" -> "fn"
      [] mode = "call" -> "call"
      [] mode = "transact" -> "transact"
      [] mode = "estimateGas" -> "estimate_gas"
      [] mode = "buildTransaction" -> "build_transaction"
      [] OTHER -> "none"

\* C25 (as stated): a call with a documented mode is dispatched to the
\* contract operation of that mode, and a ValueError 'Unknown mode' is raised
\* only for a mode outside the documented set.
C25_DocumentedModes ==
    dispatch.called
        => /\ dispatch.mode \in DocumentedModes
                => dispatch.outcome.op = DocumentedOperation(dispatch.mode)
           /\ (dispatch.outcome.kind = "raised" /\ dispatch.outcome.op = "none")
                => dispatch.mode \notin DocumentedModes

\* a list holds no entry twice
NoDuplicates(list) == \A a, b \in DOMAIN list : a # b => list[a] # list[b]

\* C26 (as stated): the ready list of a scan holds each coordinate at most
\* once, and the first pass of a cycle makes at most one unlock attempt per
\* coordinate.
C26_NoDuplicateUnlocks ==
    /\ NoDuplicates(coordinates)
    /\ NoDuplicates(ua_coordinates)
    /\ \A c \in Coordinates : attempts[c].first <= 1

\* the visible occupant of a cell (its top row) has a transformation
\* definition and its deadline has elapsed at T
VisibleReady(l, ts, T, cell) ==
    LET top == TopRow(l, cell[1], cell[2])
    IN  /\ top \in Matching(l, ts)
        /\ Deadline(l, ts, top) <= T

\* C27 (as stated): every coordinate a scan reports as ready is a cell whose
\* visible occupant has a matching transformation with an elapsed deadline;
\* an elapsed item under a newer item does not make its cell ready.
C27_ReadyMeansVisible ==
    [][(fpc = "scan" /\ fpc' \in {"unlock_all", "sleep"})
          => \A c \in Range(coordinates') :
                VisibleReady(land, transformations, chain_time, c)]_vars

(***************************** claims: the executor, continued **************)
\* C28 (as stated): a submission never carries the nonce of an earlier
\* submission that is still pending, with or without a confirmation wait.
C28_DistinctNonces ==
    [][(cpc = "loop" /\ plan' # plan /\ sends' = 1)
          => \A p \in pending : p.nonce # tx_count]_vars

\* the row is in the LandItem table
RowPlaced(r) == \E n \in DOMAIN land : land[n] = r

\* place_item was called for the row's cell in the running cycle, the row's
\* deadline having elapsed on chain time
AttemptedAfterDeadline(r) ==
    /\ MatchingTransformation(transformations, r.itemid) # 0
    /\ TotalUnlockTime(transformations, r) <= chain_time
    /\ attempts[<<r.x, r.y>>].first + attempts[<<r.x, r.y>>].retry >= 1

\* the row is placed, has a matching transformation and its deadline is
\* within the horizon of the clock
Owed(r) ==
    /\ RowPlaced(r)
    /\ MatchingTransformation(transformations, r.itemid) # 0
    /\ TotalUnlockTime(transformations, r) <= MaxTime

\* C29: with every scan answered, time advancing and the loop running on,
\* every placed row with a matching transformation is, unless it is taken
\* off the land, in the end the subject of an unlock attempt made after its
\* deadline has elapsed on chain time: again and again the loop is in a
\* state where this is so for all the rows on the land at once.
C29_EventualAttempt ==
    (fpc # "idle") ~> (\A r \in LandRows : Owed(r) => AttemptedAfterDeadline(r))

\* C29 witness: a row that was not ready at the first scan got its attempt.
C29_Witness ==
    /\ \E n \in DOMAIN land :
          /\ land[n].placementtime >= 1
          /\ AttemptedAfterDeadline(land[n])
    /\ wall_time > MaxTime
====
